---- MODULE Spec2Model ----
(***************************************************************************)
(* Model of src/main.py: the Comandato product feed API.                   *)
(*   - categorize_product: the ordered keyword classifier                  *)
(*   - fetch_products: GET with retry on read timeout, decode, classify    *)
(*   - the five query handlers layered on fetch_products                   *)
(* Python strings are TLA+ strings; str.lower, the `in` operator, string   *)
(* comparison and sorted() are computed character by character.            *)
(***************************************************************************)
EXTENDS Integers, Sequences, FiniteSets, TLC

(***************************************************************************)
(* Bounds of the model.                                                    *)
(***************************************************************************)
\* longest entry list the feed serves
MaxEntries == 3
\* most fragments concatenated into a title handed to the classifier
MaxFrags == 2

(***************************************************************************)
(* Python str operations.                                                  *)
(***************************************************************************)
UpperChars == "ABCDEFGHIJKLMNOPQRSTUVWXYZÁÉÍÓÚÑ"
LowerChars == "abcdefghijklmnopqrstuvwxyzáéíóúñ"

CharAt(s, i) == SubSeq(s, i, i)

\* the lower-case letter of each upper-case letter
LowerOf ==
    [c \in {CharAt(UpperChars, i) : i \in 1..Len(UpperChars)} |->
        CharAt(LowerChars, CHOOSE i \in 1..Len(UpperChars) : CharAt(UpperChars, i) = c)]

\* str.lower() on one character
LowerChar(c) == IF c \in DOMAIN LowerOf THEN LowerOf[c] ELSE c

RECURSIVE lower(_)
\* str.lower()
lower(s) ==
    IF s = "" THEN ""
    ELSE LowerChar(CharAt(s, 1)) \o lower(SubSeq(s, 2, Len(s)))

\* Python `kw in s` on strings: substring containment
Contains(kw, s) ==
    \E i \in 1..(Len(s) - Len(kw) + 1) : SubSeq(s, i, i + Len(kw) - 1) = kw

\* any(keyword in title_lower for keyword in [...])
AnyKeyword(keywords, title_lower) ==
    \E keyword \in keywords : Contains(keyword, title_lower)

(***************************************************************************)
(* categorize_product                                                      *)
(***************************************************************************)
\* the stove rule without its exclusion of microwave titles
IsGasStoveNoExclusion(title_lower) ==
    AnyKeyword({"cocina a gas", "cocina", "hornilla", "quemador", "indurama", "mabe"},
               title_lower)

\* the condition of the sixth branch
IsGasStove(title_lower) ==
    /\ AnyKeyword({"cocina a gas", "cocina", "hornilla", "quemador", "indurama", "mabe"},
                  title_lower)
    /\ ~Contains("microonda", title_lower)

\* the if/elif chain on the lower-cased title
CategoryOfLower(title_lower) ==
    IF AnyKeyword({"televisor", "led", "smart tv", "uhd", "4k", "nanocell"}, title_lower)
    THEN "Televisores"
    ELSE IF AnyKeyword({"parlante", "torre de sonido", "barra de sonido",
                        "minicomponente", "sound bar"}, title_lower)
    THEN "Parlantes"
    ELSE IF AnyKeyword({"celular", "iphone", "smartphone", "honor", "infinix", "tecno"},
                       title_lower)
    THEN "Celulares"
    ELSE IF AnyKeyword({"laptop", "portátil", "notebook", "core i", "ryzen"}, title_lower)
    THEN "Laptops"
    ELSE IF AnyKeyword({"impresora", "multifunción", "epson", "canon", "brother"},
                       title_lower)
    THEN "Impresoras"
    ELSE IF IsGasStove(title_lower)
    THEN "Cocina a gas"
    ELSE IF AnyKeyword({"refrigeradora", "side by side", "top freezer"}, title_lower)
    THEN "Refrigeradoras"
    ELSE IF AnyKeyword({"frigobar"}, title_lower)
    THEN "Frigobares"
    ELSE IF AnyKeyword({"congelador", "horizontal"}, title_lower)
    THEN "Congeladores"
    ELSE IF AnyKeyword({"vitrina"}, title_lower)
    THEN "Vitrinas"
    ELSE IF AnyKeyword({"lavadora", "automática", "semiautomática"}, title_lower)
    THEN "Lavadoras"
    ELSE IF AnyKeyword({"secadora"}, title_lower)
    THEN "Secadoras"
    ELSE IF AnyKeyword({"torre de lavado"}, title_lower)
    THEN "Torres de lavado"
    ELSE IF AnyKeyword({"aire acondicionado", "split", "btu"}, title_lower)
    THEN "Aire Acondicionado Split"
    ELSE IF AnyKeyword({"cafetera", "máquina de café"}, title_lower)
    THEN "Cafeteras"
    ELSE IF AnyKeyword({"canguilera"}, title_lower)
    THEN "Canguileras"
    ELSE IF AnyKeyword({"microonda", "microondas"}, title_lower)
    THEN "Horno Microondas"
    ELSE IF AnyKeyword({"freidora", "airfryer"}, title_lower)
    THEN "Freidoras"
    ELSE IF AnyKeyword({"licuadora"}, title_lower)
    THEN "Licuadoras"
    ELSE IF AnyKeyword({"olla", "arrocera"}, title_lower)
    THEN "Ollas"
    ELSE IF AnyKeyword({"exprimidor", "extractor de jugo"}, title_lower)
    THEN "Exprimidores"
    ELSE IF AnyKeyword({"sanduchera", "grill"}, title_lower)
    THEN "Sanducheras"
    ELSE IF AnyKeyword({"plancha"}, title_lower)
    THEN "Planchas"
    ELSE IF AnyKeyword({"hervidor", "eléctrico"}, title_lower)
    THEN "Hervidores"
    ELSE "Otros"

categorize_product(t) == CategoryOfLower(lower(t))

(***************************************************************************)
(* Python string comparison and sorted().                                  *)
(***************************************************************************)
\* the characters of the category labels, in code point order
CodeOrder == " ABCDEFGHIJKLMNOPQRSTUVWXYZabcdefghijklmnopqrstuvwxyz"

\* rank of a character by code point
Ord(c) == CHOOSE i \in 1..Len(CodeOrder) : CharAt(CodeOrder, i) = c

RECURSIVE StrLess(_, _)
\* Python a < b on strings
StrLess(a, b) ==
    IF b = "" THEN FALSE
    ELSE IF a = "" THEN TRUE
    ELSE IF CharAt(a, 1) = CharAt(b, 1)
         THEN StrLess(SubSeq(a, 2, Len(a)), SubSeq(b, 2, Len(b)))
         ELSE Ord(CharAt(a, 1)) < Ord(CharAt(b, 1))

RECURSIVE sorted_reverse(_)
\* sorted(list(S), reverse=True)
sorted_reverse(S) ==
    IF S = {} THEN <<>>
    ELSE LET m == CHOOSE x \in S : \A y \in S \ {x} : StrLess(y, x)
         IN  <<m>> \o sorted_reverse(S \ {m})

RECURSIVE sorted(_)
\* sorted(list(S)) for a set S of strings
sorted(S) ==
    IF S = {} THEN <<>>
    ELSE LET m == CHOOSE x \in S : \A y \in S \ {x} : StrLess(x, y)
         IN  <<m>> \o sorted(S \ {m})

(***************************************************************************)
(* What xmltodict.parse makes of the feed's markup.                        *)
(* A Python value is a record [t, v]: t is its type, v its content.        *)
(***************************************************************************)
None == [t |-> "none", v |-> ""]
Str(s) == [t |-> "str", v |-> s]
Dict(f) == [t |-> "dict", v |-> f]
List(q) == [t |-> "list", v |-> q]
EmptyDict == Dict(<<>>)

\* dict.get(key, default)
Get(d, key, default) == IF key \in DOMAIN d.v THEN d.v[key] ELSE default

\* an element without children: its attributes and its text
Elem(attrs, text) == [attrs |-> attrs, text |-> text]
NoAttrs == <<>>

\* xmltodict on an element without children
LeafValue(e) ==
    IF DOMAIN e.attrs = {}
    THEN IF e.text = "" THEN None ELSE Str(e.text)
    ELSE Dict([k \in {"@" \o a : a \in DOMAIN e.attrs}
                     \cup (IF e.text = "" THEN {} ELSE {"#text"}) |->
                 IF k = "#text" THEN Str(e.text)
                 ELSE Str(e.attrs[SubSeq(k, 2, Len(k))])])

\* xmltodict on an <entry>: a mapping of its children, None when it has none
EntryValue(entry) ==
    IF DOMAIN entry = {} THEN None
    ELSE Dict([k \in DOMAIN entry |-> LeafValue(entry[k])])

\* xmltodict on the children of <feed>: one <entry> is a mapping, several a list
FeedValue(entries, others) ==
    IF Len(entries) = 0 /\ ~others THEN None
    ELSE Dict([k \in (IF others THEN {"title"} ELSE {})
                         \cup (IF Len(entries) = 0 THEN {} ELSE {"entry"}) |->
                 IF k = "title" THEN Str("Comandato")
                 ELSE IF Len(entries) = 1 THEN EntryValue(entries[1])
                 ELSE List([i \in 1..Len(entries) |-> EntryValue(entries[i])])])

\* a response body: markup that is well-formed or not, its root element, the
\* <entry> children of the root and whether the root has other children
Markup(wellformed, root, entries, others) ==
    [wellformed |-> wellformed, root |-> root, entries |-> entries, others |-> others]

\* xmltodict.parse(response.text), for well-formed markup
xmltodict_parse(text) ==
    IF text.root = "feed"
    THEN Dict([feed |-> FeedValue(text.entries, text.others)])
    ELSE Dict([rss |-> FeedValue(text.entries, text.others)])

(***************************************************************************)
(* fetch_products: lines 110-134, from the response body to the products.  *)
(***************************************************************************)
Raised(exc) == [raised |-> TRUE, exc |-> exc]
Returned(products) == [raised |-> FALSE, products |-> products]

\* Product(title=..., summary=..., link=..., category=...)
Product(t, summary, link, category) ==
    [title |-> t, summary |-> summary, link |-> link, category |-> category]

\* the link once a mapping is replaced by its @href
LinkOf(entry) ==
    LET link == Get(entry, "link", Str(""))
    IN  IF link.t = "dict" THEN Get(link, "@href", Str("")) ELSE link

\* what the loop body does with one entry
BuildProduct(entry) ==
    IF entry.t # "dict" THEN Raised("AttributeError")
    ELSE LET t == Get(entry, "title", Str(""))
             summary == Get(entry, "summary", Str(""))
             link == LinkOf(entry)
         IN  IF t.t # "str" THEN Raised("AttributeError")
             ELSE IF summary.t \notin {"str", "none"} \/ link.t # "str"
             THEN Raised("ValidationError")
             ELSE Returned(Product(t.v, summary, link.v, categorize_product(t.v)))

\* an absent feed or entry path fails instead of giving no entries
EntriesOfStrict(data) ==
    IF "feed" \notin DOMAIN data.v THEN Raised("KeyError")
    ELSE LET feed == data.v["feed"]
         IN  IF feed.t # "dict" THEN Raised("AttributeError")
             ELSE IF "entry" \notin DOMAIN feed.v THEN Raised("KeyError")
             ELSE LET entries == feed.v["entry"]
                  IN  Returned(IF entries.t = "list" THEN entries.v ELSE <<entries>>)

\* data.get('feed', {}).get('entry', []), made a list
EntriesOf(data) ==
    LET feed == Get(data, "feed", EmptyDict)
    IN  IF feed.t # "dict" THEN Raised("AttributeError")
        ELSE LET entries == Get(feed, "entry", List(<<>>))
             IN  Returned(IF entries.t = "list" THEN entries.v ELSE <<entries>>)

\* the body of the try block once the GET has succeeded
Decode(text) ==
    IF ~text.wellformed THEN Raised("ExpatError")
    ELSE LET entries == EntriesOf(xmltodict_parse(text))
         IN  IF entries.raised THEN entries
             ELSE LET built == [i \in 1..Len(entries.products) |->
                                   BuildProduct(entries.products[i])]
                  IN  IF \E i \in 1..Len(built) : built[i].raised
                      THEN built[CHOOSE i \in 1..Len(built) :
                                    /\ built[i].raised
                                    /\ \A j \in 1..(i - 1) : ~built[j].raised]
                      ELSE Returned([i \in 1..Len(built) |-> built[i].products])

(***************************************************************************)
(* fetch_products: the exceptions of the try block and the except clauses. *)
(***************************************************************************)
max_retries == 3

\* the classes each exception an attempt can raise is an instance of
Bases ==
    [ ReadTimeout |-> {"ReadTimeout", "TimeoutException", "TransportError",
                       "RequestError", "HTTPError", "Exception"},
      ConnectTimeout |-> {"ConnectTimeout", "TimeoutException", "TransportError",
                          "RequestError", "HTTPError", "Exception"},
      ConnectError |-> {"ConnectError", "NetworkError", "TransportError",
                        "RequestError", "HTTPError", "Exception"},
      HTTPStatusError |-> {"HTTPStatusError", "HTTPError", "Exception"},
      ExpatError |-> {"ExpatError", "Exception"},
      AttributeError |-> {"AttributeError", "Exception"},
      ValidationError |-> {"ValidationError", "ValueError", "Exception"},
      KeyError |-> {"KeyError", "LookupError", "Exception"} ]

IsInstance(exc, class) == class \in Bases[exc]

\* what the feed answers to one GET: an exception of client.get or of
\* raise_for_status, or a 2xx response with its body
Failure(exc) == [error |-> exc, text |-> Markup(FALSE, "", <<>>, FALSE)]
Ok(text) == [error |-> "", text |-> text]

\* the try block, lines 105-134
TryBody(response) ==
    IF response.error # "" THEN Raised(response.error) ELSE Decode(response.text)

\* a retry on every transport failure
RetriedAnyHTTPError(exc) == IsInstance(exc, "HTTPError")

\* except httpx.ReadTimeout
Retried(exc) == IsInstance(exc, "ReadTimeout")

\* the retries are exhausted one timeout too late
ExhaustedLate(count) == count > max_retries

\* if retry_count >= max_retries
Exhausted(count) == count >= max_retries

\* the same delay before every retry
BackoffFixed(count) == 2

\* asyncio.sleep(2 * retry_count)
Backoff(count) == 2 * count

(***************************************************************************)
(* What a handler answers.                                                 *)
(***************************************************************************)
HTTPException(status, detail) == [kind |-> "raise", status |-> status, detail |-> detail]
JSONResponse(status) == [kind |-> "json", status |-> status]
Return(body) == [kind |-> "return", body |-> body]
Unavailable == JSONResponse(503)

\* what fetch_products gives its caller
FetchReturned(products) == [fk |-> "products", products |-> products]
FetchRaised(exc) == [fk |-> "raise", exc |-> exc]
FetchNone == [fk |-> "none"]

\* raise HTTPException(...) of the three except clauses
TimeoutExceeded == HTTPException(504, "Tiempo de espera agotado")
TransportError == HTTPException(503, "Error al obtener datos del feed")
UnexpectedError == HTTPException(500, "Error al procesar los datos")

\* term.lower() in product.title.lower() or term.lower() in product.summary.lower()
\* raises on a summary that is None once the title does not match
MatchRaises(product, term) ==
    /\ ~Contains(lower(term), lower(product.title))
    /\ product.summary.t = "none"

Matches(product, term) ==
    \/ Contains(lower(term), lower(product.title))
    \/ Contains(lower(term), lower(product.summary.v))

get_all_products(f) ==
    IF f.fk = "products" THEN Return(f.products)
    ELSE IF f.fk = "none" THEN Return(None)
    ELSE Unavailable

search_products(term, f) ==
    IF f.fk # "products" THEN Unavailable
    ELSE IF \E i \in 1..Len(f.products) : MatchRaises(f.products[i], term)
    THEN Unavailable
    ELSE LET Keep(product) == Matches(product, term)
         IN  Return(SelectSeq(f.products, Keep))

\* the bound test without its lower half
InRangeUpperOnly(index, n) == index < n

\* 0 <= index < len(products)
InRange(index, n) == 0 <= index /\ index < n

\* products[index] raises IndexError
IndexRaises(products, index) ==
    ~((-Len(products)) <= index /\ index < Len(products))

\* products[index]: a negative index counts from the end
PyIndex(products, index) ==
    IF index >= 0 THEN products[index + 1] ELSE products[Len(products) + index + 1]

get_product_by_index(index, f) ==
    IF f.fk = "raise" THEN f.exc
    ELSE IF f.fk = "none" THEN Unavailable
    ELSE IF InRange(index, Len(f.products))
    THEN IF IndexRaises(f.products, index) THEN Unavailable
         ELSE Return(PyIndex(f.products, index))
    ELSE HTTPException(404, "Producto no encontrado")

\* sorted(list(categories))
sorted_categories(S) == sorted(S)

get_categories(f) ==
    IF f.fk # "products" THEN Unavailable
    ELSE Return([categories |->
                    sorted_categories({f.products[i].category : i \in 1..Len(f.products)})])

\* the comparison without lower()
SameCategoryExact(product, category_name) == product.category = category_name

\* product.category.lower() == category_name.lower()
SameCategory(product, category_name) ==
    lower(product.category) = lower(category_name)

get_products_by_category(category_name, f) ==
    IF f.fk = "raise" THEN f.exc
    ELSE IF f.fk = "none" THEN Unavailable
    ELSE LET Keep(product) == SameCategory(product, category_name)
             category_products == SelectSeq(f.products, Keep)
         IN  IF category_products = <<>>
             THEN HTTPException(404, "No se encontraron productos en la categoría")
             ELSE Return(category_products)

\* the handler `o` called with `a`, given what its fetch_products call gave
Handle(o, a, f) ==
    CASE o = "get_all_products" -> get_all_products(f)
      [] o = "search_products" -> search_products(a, f)
      [] o = "get_product_by_index" -> get_product_by_index(a, f)
      [] o = "get_categories" -> get_categories(f)
      [] o = "get_products_by_category" -> get_products_by_category(a, f)

(***************************************************************************)
(* State.                                                                  *)
(***************************************************************************)
\* the clients that may have a request in progress
Reqs == {"r1", "r2"}

VARIABLES
    title,        \* the title handed to categorize_product
    label,        \* what categorize_product returned for it ("" before the call)
    clients,      \* the clients that send requests in this run
    served,       \* the answers the feed gives in this run (ids of ResponseOf)
    pc,           \* per request: "idle", "get" (awaiting client.get), "sleep"
                  \* (awaiting asyncio.sleep), "done" (the handler has answered)
    op,           \* per request: the handler called
    arg,          \* per request: its parameter ("" when it has none)
    retry_count,  \* per request: the local retry_count of fetch_products
    gets,         \* per request: the GETs issued so far
    sleeps,       \* per request: the delays slept so far, in seconds
    responses,    \* per request: the answers to its GETs (ids of ResponseOf)
    fetched,      \* per request: what fetch_products gave the handler
    result        \* per request: what the handler answered

vars == <<title, label, clients, served, pc, op, arg, retry_count, gets, sleeps,
          responses, fetched, result>>

NotFetched == [fk |-> "pending"]
NoResult == [kind |-> "pending"]

(***************************************************************************)
(* The feed: the entries of the catalogue and the answers to a GET.        *)
(***************************************************************************)
Text(s) == Elem(NoAttrs, s)

Catalogue ==
    << [title |-> Text("Funda protectora"), summary |-> Text("Para LAPTOP"),
        link |-> Text("http://c/1")],
       [title |-> Text("Laptop HP Ryzen"), link |-> Elem([href |-> "http://c/2"], "")],
       [summary |-> Text("sin titulo")],
       [title |-> Text("Microonda con función de cocina"), summary |-> Text(""),
        link |-> Elem([rel |-> "alternate"], "")],
       [title |-> Text("Cocina a gas Indurama"), summary |-> Text("4 quemadores"),
        link |-> Text("http://c/5")] >>

\* bodies that are not a feed of catalogue entries: malformed markup, another
\* root, <feed/>, a feed without entries, an entry whose title is <title/>
OddTexts ==
    << Markup(FALSE, "", <<>>, FALSE),
       Markup(TRUE, "rss", <<>>, TRUE),
       Markup(TRUE, "feed", <<>>, FALSE),
       Markup(TRUE, "feed", <<>>, TRUE),
       Markup(TRUE, "feed", <<[title |-> Text(""), link |-> Text("http://c/0")]>>, TRUE) >>

\* a feed of n consecutive catalogue entries from the i-th
Window(i, n) == Markup(TRUE, "feed", SubSeq(Catalogue, i, i + n - 1), TRUE)

\* the exceptions of client.get and raise_for_status
Errors == <<"ReadTimeout", "ConnectTimeout", "ConnectError", "HTTPStatusError">>

\* an answer is <<0, k, 0>>: the k-th exception; <<1, k, 0>>: the k-th odd
\* body; <<2, i, n>>: the feed Window(i, n)
ResponseIds ==
    {<<0, k, 0>> : k \in 1..Len(Errors)}
        \cup {<<1, k, 0>> : k \in 1..Len(OddTexts)}
        \cup UNION {{<<2, i, n>> : i \in 1..(Len(Catalogue) - n + 1)} : n \in 1..MaxEntries}

ResponseOf ==
    [id \in ResponseIds |->
        IF id[1] = 0 THEN Failure(Errors[id[2]])
        ELSE IF id[1] = 1 THEN Ok(OddTexts[id[2]])
        ELSE Ok(Window(id[2], id[3]))]

\* the try block on each answer
TryBodyOf == [id \in ResponseIds |-> TryBody(ResponseOf[id])]

Terms == {"LAPTOP", ""}
Indexes == (-1)..MaxEntries
Names == {"laptops", "OTROS", "nonexistent"}

(***************************************************************************)
(* The requests.                                                           *)
(***************************************************************************)
Idle ==
    /\ pc = [r \in Reqs |-> "idle"]
    /\ op = [r \in Reqs |-> ""]
    /\ arg = [r \in Reqs |-> ""]
    /\ retry_count = [r \in Reqs |-> 0]
    /\ gets = [r \in Reqs |-> 0]
    /\ sleeps = [r \in Reqs |-> <<>>]
    /\ responses = [r \in Reqs |-> <<>>]
    /\ fetched = [r \in Reqs |-> NotFetched]
    /\ result = [r \in Reqs |-> NoResult]

\* one client, every answer of the feed
Init ==
    /\ title = ""
    /\ label = ""
    /\ clients = {"r1"}
    /\ served = ResponseIds
    /\ Idle

\* a read timeout, a connection error, another root, a feed of three entries
FewResponses == {<<0, 1, 0>>, <<0, 3, 0>>, <<1, 2, 0>>, <<2, 1, 3>>}

\* two clients at once, a few answers of the feed
InitConcurrent ==
    /\ title = ""
    /\ label = ""
    /\ clients = Reqs
    /\ served = FewResponses
    /\ Idle

\* a handler is called and runs to its first await: retry_count = 0, the loop
\* condition holds, client.get is awaited
Call(r, o, a) ==
    /\ r \in clients
    /\ pc[r] = "idle"
    /\ pc' = [pc EXCEPT ![r] = "get"]
    /\ op' = [op EXCEPT ![r] = o]
    /\ arg' = [arg EXCEPT ![r] = a]
    /\ retry_count' = [retry_count EXCEPT ![r] = 0]
    /\ gets' = [gets EXCEPT ![r] = 1]
    /\ UNCHANGED <<sleeps, responses, fetched, result, title, label, clients, served>>

Invoke(r) ==
    \/ Call(r, "get_all_products", "")
    \/ \E term \in Terms : Call(r, "search_products", term)
    \/ \E index \in Indexes : Call(r, "get_product_by_index", index)
    \/ Call(r, "get_categories", "")
    \/ \E category_name \in Names : Call(r, "get_products_by_category", category_name)

\* fetch_products ends with f and the handler runs to its end
Finish(r, f) ==
    /\ pc' = [pc EXCEPT ![r] = "done"]
    /\ fetched' = [fetched EXCEPT ![r] = f]
    /\ result' = [result EXCEPT ![r] = Handle(op[r], arg[r], f)]

\* retry_count is one counter of the module, shared by the calls in progress
SharedCount(r) ==
    LET other == CHOOSE q \in Reqs : q # r
    IN  retry_count[r] + retry_count[other] + 1

\* retry_count += 1, on the local of this call
NextCount(r) == retry_count[r] + 1

\* the awaited GET ends with the answer `id`: the rest of the try block, the
\* except clauses, and either the backoff sleep is awaited or fetch_products ends
Attempt(r, id) ==
    /\ pc[r] = "get"
    /\ responses' = [responses EXCEPT ![r] = Append(@, id)]
    /\ LET body == TryBodyOf[id]
       IN  IF ~body.raised
           THEN /\ Finish(r, FetchReturned(body.products))
                /\ UNCHANGED <<retry_count, sleeps>>
           ELSE IF Retried(body.exc)
           THEN /\ retry_count' = [retry_count EXCEPT ![r] = NextCount(r)]
                /\ IF Exhausted(NextCount(r))
                   THEN /\ Finish(r, FetchRaised(TimeoutExceeded))
                        /\ UNCHANGED sleeps
                   ELSE /\ pc' = [pc EXCEPT ![r] = "sleep"]
                        /\ sleeps' = [sleeps EXCEPT ![r] = Append(@, Backoff(NextCount(r)))]
                        /\ UNCHANGED <<fetched, result>>
           ELSE IF IsInstance(body.exc, "HTTPError")
           THEN /\ Finish(r, FetchRaised(TransportError))
                /\ UNCHANGED <<retry_count, sleeps>>
           ELSE /\ Finish(r, FetchRaised(UnexpectedError))
                /\ UNCHANGED <<retry_count, sleeps>>
    /\ UNCHANGED <<op, arg, gets, title, label, clients, served>>

\* client.get or raise_for_status raises
GetFails(r) == \E id \in served : id[1] = 0 /\ Attempt(r, id)

\* a 2xx response arrives
GetSucceeds(r) == \E id \in served : id[1] # 0 /\ Attempt(r, id)

\* the sleep ends: the loop condition, then the next GET is awaited, or the
\* loop is left and fetch_products returns None
Wake(r) ==
    /\ pc[r] = "sleep"
    /\ IF retry_count[r] < max_retries
       THEN /\ pc' = [pc EXCEPT ![r] = "get"]
            /\ gets' = [gets EXCEPT ![r] = @ + 1]
            /\ UNCHANGED <<fetched, result>>
       ELSE /\ Finish(r, FetchNone)
            /\ UNCHANGED gets
    /\ UNCHANGED <<op, arg, retry_count, sleeps, responses, title, label, clients, served>>

\* the answer is sent; the locals of the call are gone
Respond(r) ==
    /\ pc[r] = "done"
    /\ pc' = [pc EXCEPT ![r] = "idle"]
    /\ op' = [op EXCEPT ![r] = ""]
    /\ arg' = [arg EXCEPT ![r] = ""]
    /\ retry_count' = [retry_count EXCEPT ![r] = 0]
    /\ gets' = [gets EXCEPT ![r] = 0]
    /\ sleeps' = [sleeps EXCEPT ![r] = <<>>]
    /\ responses' = [responses EXCEPT ![r] = <<>>]
    /\ fetched' = [fetched EXCEPT ![r] = NotFetched]
    /\ result' = [result EXCEPT ![r] = NoResult]
    /\ UNCHANGED <<title, label, clients, served>>

Next ==
    \E r \in Reqs :
        \/ Invoke(r)
        \/ GetFails(r)
        \/ GetSucceeds(r)
        \/ Wake(r)
        \/ Respond(r)

Spec == Init /\ [][Next]_vars

SpecConcurrent == InitConcurrent /\ [][Next]_vars

\* every awaited GET ends, by the client's timeouts at the latest, and every
\* sleep ends
Fairness ==
    \A r \in Reqs : WF_vars(GetFails(r) \/ GetSucceeds(r)) /\ WF_vars(Wake(r))

FairSpec == Spec /\ Fairness

(***************************************************************************)
(* The classifier on its own.                                              *)
(***************************************************************************)
Fragments ==
    << "Televisor ", "TELEVISOR ", "Parlante ", "Celular ", "Laptop ", "PORTÁTIL ",
       "Impresora ", "Cocina a gas Indurama ", "Hornilla ", "Refrigeradora ",
       "Frigobar ", "Congelador ", "Vitrina ", "Lavadora ", "Secadora ",
       "Torre de lavado ", "Split 12000 BTU ", "Cafetera ", "Canguilera ",
       "Microonda con función de cocina ", "MICROONDAS ", "Freidora ", "Licuadora ",
       "Olla ", "Exprimidor ", "Sanduchera ", "Plancha ", "Hervidor ", "Funda ",
       "Wireless ", "Multifunción " >>

RECURSIVE Concat(_)
Concat(ixs) ==
    IF ixs = <<>> THEN "" ELSE Fragments[Head(ixs)] \o Concat(Tail(ixs))

\* the titles tried: up to MaxFrags fragments of catalogue wording in a row
Titles ==
    { Concat(ixs) : ixs \in UNION { [1..n -> 1..Len(Fragments)] : n \in 0..MaxFrags } }

InitClassify ==
    /\ title \in Titles
    /\ label = ""
    /\ clients = {}
    /\ served = {}
    /\ Idle

\* one call categorize_product(title)
Categorize ==
    /\ label = ""
    /\ label' = categorize_product(title)
    /\ UNCHANGED <<title, clients, served, pc, op, arg, retry_count, gets, sleeps,
                   responses, fetched, result>>

NextClassify == Categorize

SpecClassify == InitClassify /\ [][NextClassify]_vars

(***************************************************************************)
(* Vocabulary of the properties below.                                     *)
(***************************************************************************)
Done(r) == pc[r] = "done"
Attempts(r) == Len(responses[r])
IsError(id, class) == id[1] = 0 /\ IsInstance(Errors[id[2]], class)
IsReadTimeout(id) == id[1] = 0 /\ Errors[id[2]] = "ReadTimeout"
\* a timeout of any kind: read, connect
IsTimeout(id) == IsError(id, "TimeoutException")
\* a connection error or a non-2xx status
IsOtherTransportFailure(id) == IsError(id, "HTTPError") /\ ~IsTimeout(id)
AllTimeouts(r) == \A i \in 1..Attempts(r) : IsTimeout(responses[r][i])
AllReadTimeouts(r) == \A i \in 1..Attempts(r) : IsReadTimeout(responses[r][i])
LastResponse(r) == ResponseOf[responses[r][Attempts(r)]]
FailedWith(f, exc) == f.fk = "raise" /\ f.exc.status = exc.status
Fetched(r) == fetched[r].fk = "products"

RetriedThriceThenTimeoutExceeded(r) ==
    /\ gets[r] = 3
    /\ sleeps[r] = <<2, 4>>
    /\ FailedWith(fetched[r], TimeoutExceeded)

\* C1, as claimed: when every attempt ends in a timeout of whichever kind, 3 GETs
\* are made, with sleeps of 2 s and 4 s between them and none after the third,
\* and the call fails with TimeoutExceeded
C1_AnyTimeoutRetried ==
    \A r \in Reqs :
        (Done(r) /\ AllTimeouts(r)) => RetriedThriceThenTimeoutExceeded(r)

\* C1, amended: when every attempt ends in a read timeout, 3 GETs are made, with
\* sleeps of 2 s and 4 s between them and none after the third, and the call
\* fails with TimeoutExceeded
C1_ReadTimeoutRetried ==
    \A r \in Reqs :
        (Done(r) /\ AllReadTimeouts(r)) => RetriedThriceThenTimeoutExceeded(r)

C1_Witness ==
    \E r \in Reqs : Done(r) /\ Attempts(r) = 3 /\ AllReadTimeouts(r)

\* C2: an attempt that ends in a transport failure other than a timeout is the
\* last one: the call has failed with TransportError, no GET was issued after it
\* and the only sleeps are those after the timeouts before it
C2_TransportFailureNotRetried ==
    \A r \in Reqs : \A i \in 1..Attempts(r) :
        IsOtherTransportFailure(responses[r][i]) =>
            /\ i = Attempts(r)
            /\ Done(r)
            /\ FailedWith(fetched[r], TransportError)
            /\ gets[r] = i
            /\ Len(sleeps[r]) = i - 1

C2_Witness ==
    \E r \in Reqs :
        /\ Done(r)
        /\ Attempts(r) = 2
        /\ IsReadTimeout(responses[r][1])
        /\ IsOtherTransportFailure(responses[r][2])

\* C3, as claimed: when the fetch inside a query operation fails with an error,
\* the operation fails with that same error
C3_FetchErrorPropagates ==
    \A r \in Reqs :
        (Done(r) /\ fetched[r].fk = "raise") =>
            /\ result[r].kind = "raise"
            /\ result[r].status = fetched[r].exc.status

\* the body has no feed/entry path: another root, or a feed without entries
NoEntryPath(text) == text.wellformed /\ (text.root # "feed" \/ text.entries = <<>>)

\* C4, as claimed: a 2xx body that is not well-formed, or has no feed/entry path,
\* makes the fetch fail, and not with UnexpectedError
C4_DecodeErrorRaised ==
    \A r \in Reqs :
        (Done(r) /\ LastResponse(r).error = ""
            /\ (~LastResponse(r).text.wellformed \/ NoEntryPath(LastResponse(r).text))) =>
            /\ fetched[r].fk = "raise"
            /\ ~FailedWith(fetched[r], UnexpectedError)

\* C4, amended: a 2xx body that is not well-formed makes the fetch fail with
\* UnexpectedError, as does a <feed/> without children or attributes; a
\* well-formed body with another root, or whose feed has children but no entry,
\* gives the empty product sequence
C4_MalformedUnexpectedAbsentEmpty ==
    \A r \in Reqs :
        (Done(r) /\ LastResponse(r).error = "") =>
            LET text == LastResponse(r).text
            IN  /\ ~text.wellformed => FailedWith(fetched[r], UnexpectedError)
                /\ (NoEntryPath(text) /\ text.root = "feed" /\ ~text.others) =>
                       FailedWith(fetched[r], UnexpectedError)
                /\ (NoEntryPath(text) /\ (text.root # "feed" \/ text.others)) =>
                       (Fetched(r) /\ fetched[r].products = <<>>)

C4_Witness ==
    \E r \in Reqs :
        /\ Done(r)
        /\ LastResponse(r).error = ""
        /\ LastResponse(r).text.wellformed
        /\ LastResponse(r).text.root # "feed"
        /\ Fetched(r)

\* the rule table: the keywords of rules 1..24 and the label of each
RuleTable ==
    << [keywords |-> {"televisor", "led", "smart tv", "uhd", "4k", "nanocell"},
        label |-> "Televisores"],
       [keywords |-> {"parlante", "torre de sonido", "barra de sonido", "minicomponente",
                      "sound bar"},
        label |-> "Parlantes"],
       [keywords |-> {"celular", "iphone", "smartphone", "honor", "infinix", "tecno"},
        label |-> "Celulares"],
       [keywords |-> {"laptop", "portátil", "notebook", "core i", "ryzen"},
        label |-> "Laptops"],
       [keywords |-> {"impresora", "multifunción", "epson", "canon", "brother"},
        label |-> "Impresoras"],
       [keywords |-> {"cocina a gas", "cocina", "hornilla", "quemador", "indurama", "mabe"},
        label |-> "Cocina a gas"],
       [keywords |-> {"refrigeradora", "side by side", "top freezer"},
        label |-> "Refrigeradoras"],
       [keywords |-> {"frigobar"}, label |-> "Frigobares"],
       [keywords |-> {"congelador", "horizontal"}, label |-> "Congeladores"],
       [keywords |-> {"vitrina"}, label |-> "Vitrinas"],
       [keywords |-> {"lavadora", "automática", "semiautomática"}, label |-> "Lavadoras"],
       [keywords |-> {"secadora"}, label |-> "Secadoras"],
       [keywords |-> {"torre de lavado"}, label |-> "Torres de lavado"],
       [keywords |-> {"aire acondicionado", "split", "btu"},
        label |-> "Aire Acondicionado Split"],
       [keywords |-> {"cafetera", "máquina de café"}, label |-> "Cafeteras"],
       [keywords |-> {"canguilera"}, label |-> "Canguileras"],
       [keywords |-> {"microonda", "microondas"}, label |-> "Horno Microondas"],
       [keywords |-> {"freidora", "airfryer"}, label |-> "Freidoras"],
       [keywords |-> {"licuadora"}, label |-> "Licuadoras"],
       [keywords |-> {"olla", "arrocera"}, label |-> "Ollas"],
       [keywords |-> {"exprimidor", "extractor de jugo"}, label |-> "Exprimidores"],
       [keywords |-> {"sanduchera", "grill"}, label |-> "Sanducheras"],
       [keywords |-> {"plancha"}, label |-> "Planchas"],
       [keywords |-> {"hervidor", "eléctrico"}, label |-> "Hervidores"] >>

\* rule k matches the lower-cased title
RuleMatches(k, t) ==
    /\ \E keyword \in RuleTable[k].keywords : Contains(keyword, t)
    /\ k = 6 => ~Contains("microonda", t)

\* the label of the first rule that matches, "Otros" when none does
FirstMatch(t) ==
    IF \E k \in 1..Len(RuleTable) : RuleMatches(k, t)
    THEN RuleTable[CHOOSE k \in 1..Len(RuleTable) :
                       RuleMatches(k, t) /\ \A j \in 1..(k - 1) : ~RuleMatches(j, t)].label
    ELSE "Otros"

\* a stove keyword and "microonda", and no keyword of rules 1-5 and 7-16
StoveAndMicrowaveOnly(t) ==
    /\ \E keyword \in RuleTable[6].keywords : Contains(keyword, t)
    /\ Contains("microonda", t)
    /\ \A k \in (1..5) \cup (7..16) : ~RuleMatches(k, t)

\* C5: classify returns the label of the first rule of the table that matches the
\* lower-cased title, the stove rule matching only without "microonda", and
\* "Otros" when none matches; so a stove-and-microwave title is a microwave, a
\* title with "televisor" is a TV and the empty title is "Otros"
C5_FirstMatchingRule ==
    label # "" =>
        LET t == lower(title)
        IN  /\ label = FirstMatch(t)
            /\ StoveAndMicrowaveOnly(t) => label = "Horno Microondas"
            /\ Contains("televisor", t) => label = "Televisores"
            /\ title = "" => label = "Otros"

C5_Witness ==
    /\ label = "Horno Microondas"
    /\ StoveAndMicrowaveOnly(lower(title))

\* C6: on a fetched collection of n products, byIndex(i) returns the product at
\* zero-based position i when 0 <= i < n and fails with NotFound otherwise
C6_IndexInRangeOrNotFound ==
    \A r \in Reqs :
        (Done(r) /\ op[r] = "get_product_by_index" /\ Fetched(r)) =>
            LET n == Len(fetched[r].products)
                i == arg[r]
            IN  IF 0 <= i /\ i < n
                THEN result[r].kind = "return" /\ result[r].body = fetched[r].products[i + 1]
                ELSE result[r].kind = "raise" /\ result[r].status = 404

C6_Witness ==
    \E r \in Reqs :
        /\ Done(r) /\ op[r] = "get_product_by_index" /\ Fetched(r)
        /\ Len(fetched[r].products) > 0
        /\ arg[r] = Len(fetched[r].products)
        /\ result[r].kind = "raise"

\* the positions of the products whose category is `name`, ignoring case
InCategory(products, name) ==
    {i \in 1..Len(products) : lower(products[i].category) = lower(name)}

\* q is the sequence of the products at the positions I, in feed order
IsSelection(q, products, I) ==
    /\ Len(q) = Cardinality(I)
    /\ \E f \in [1..Len(q) -> I] :
           /\ \A a, b \in 1..Len(q) : a < b => f[a] < f[b]
           /\ \A a \in 1..Len(q) : q[a] = products[f[a]]

\* C7: on a fetched collection, byCategory(name) returns, in feed order, exactly
\* the products whose category is name ignoring case, and fails with NotFound
\* exactly when there is none
C7_CategoryFilter ==
    \A r \in Reqs :
        (Done(r) /\ op[r] = "get_products_by_category" /\ Fetched(r)) =>
            LET I == InCategory(fetched[r].products, arg[r])
            IN  IF I = {}
                THEN result[r].kind = "raise" /\ result[r].status = 404
                ELSE /\ result[r].kind = "return"
                     /\ IsSelection(result[r].body, fetched[r].products, I)

C7_Witness ==
    \E r \in Reqs :
        /\ Done(r) /\ op[r] = "get_products_by_category" /\ Fetched(r)
        /\ arg[r] = "OTROS"
        /\ result[r].kind = "return"
        /\ Len(result[r].body) = 2
        /\ Len(fetched[r].products) = 3

\* C8: on a fetched collection, listCategories returns each category that occurs
\* once, nothing else, in ascending order; the empty sequence on no products
C8_CategoriesSortedDistinct ==
    \A r \in Reqs :
        (Done(r) /\ op[r] = "get_categories" /\ Fetched(r)) =>
            /\ result[r].kind = "return"
            /\ LET c == result[r].body.categories
                   products == fetched[r].products
               IN  /\ {c[k] : k \in 1..Len(c)} = {products[i].category : i \in 1..Len(products)}
                   /\ \A k \in 1..(Len(c) - 1) : StrLess(c[k], c[k + 1])
                   /\ products = <<>> => c = <<>>

C8_Witness ==
    \E r \in Reqs :
        /\ Done(r) /\ op[r] = "get_categories" /\ Fetched(r)
        /\ Len(fetched[r].products) = 3
        /\ fetched[r].products[1].category = "Otros"
        /\ fetched[r].products[3].category = "Otros"
        /\ result[r].body.categories = <<"Laptops", "Otros">>

\* what a fetch gives that got the answers h to its GETs, by those answers alone
OutcomeOf(h) ==
    IF h = <<>> THEN NotFetched
    ELSE LET last == h[Len(h)]
         IN  IF \E i \in 1..(Len(h) - 1) : ~IsReadTimeout(h[i]) THEN NotFetched
             ELSE IF IsReadTimeout(last)
             THEN IF Len(h) = max_retries THEN FetchRaised(TimeoutExceeded) ELSE NotFetched
             ELSE IF last[1] = 0 THEN FetchRaised(TransportError)
             ELSE IF TryBodyOf[last].raised THEN FetchRaised(UnexpectedError)
             ELSE FetchReturned(TryBodyOf[last].products)

SameFetch(f, g) ==
    /\ f.fk = g.fk
    /\ f.fk = "raise" => f.exc = g.exc
    /\ f.fk = "products" => f.products = g.products

\* C9: a call answers only after a GET of its own, what it gives is decided by
\* the answers to its own GETs, whatever the other calls do meanwhile, and
\* nothing of a call is left once it has answered
C9_CallsIndependent ==
    \A r \in Reqs :
        /\ Done(r) =>
               /\ gets[r] >= 1
               /\ Attempts(r) = gets[r]
               /\ SameFetch(fetched[r], OutcomeOf(responses[r]))
               /\ result[r] = Handle(op[r], arg[r], fetched[r])
        /\ pc[r] \in {"get", "sleep"} =>
               /\ OutcomeOf(responses[r]).fk = "pending"
               /\ retry_count[r] = Attempts(r)
        /\ pc[r] = "idle" =>
               /\ fetched[r] = NotFetched
               /\ result[r] = NoResult
               /\ responses[r] = <<>>

C9_Witness ==
    /\ Done("r1") /\ Attempts("r1") = 2 /\ Fetched("r1")
    /\ pc["r2"] = "sleep" /\ Attempts("r2") = 2

\* at most 3 GETs and 2 sleeps; a call that has ended made a GET and its fetch
\* gave a product list or raised
C10_Bounded ==
    \A r \in Reqs :
        /\ gets[r] <= 3
        /\ Len(sleeps[r]) <= 2
        /\ Done(r) => (gets[r] >= 1 /\ fetched[r].fk \in {"products", "raise"})

\* C10: whatever the attempts end in, a call of fetch_products ends, after 1 to 3
\* GETs and at most 2 sleeps, with a product list or with an error, never by
\* leaving the loop with neither
C10_Terminates ==
    /\ []C10_Bounded
    /\ \A r \in Reqs : (pc[r] \in {"get", "sleep"}) ~> Done(r)

C10_Witness ==
    \E r \in Reqs :
        /\ Done(r)
        /\ gets[r] = 3
        /\ Len(sleeps[r]) = 2
        /\ Fetched(r)
====
